---- MODULE Spec2Model ----
(***************************************************************************)
(* Buddy-system memory allocator simulator (bash script appended to        *)
(* src/.gitignore.example, lines 135-656).                                 *)
(*                                                                         *)
(* Bash strings are modelled as sequences of decimal digits, so that the   *)
(* record layout "<status><5-digit id><size>" and the substring            *)
(* extractions of the script are computed, not assumed.  Bash indexed      *)
(* arrays are modelled as sequences whose holes (unset elements) hold the  *)
(* marker Unset; index 0 of the script is position 1 of the sequence.      *)
(***************************************************************************)
EXTENDS Integers, Sequences, FiniteSets, TLC

\* ------------------------------------------------------------------ bounds
\* Number of menu operations explored from start-up.
MaxOps == 6

\* Request sizes typed at the "Zuweisung" prompt.
Requests == {1, 2, 3, 4, 8, 16, 17}

\* Pool sizes typed at the start-up prompt.
PoolEingaben == {1, 2, 4, 8, 16, 131072}

\* Request sizes typed at the prompts of the scripted session.
RequestsSzenario == {2, 4}

\* Sessions on a table of more than 256 records: the pool size typed at the
\* start, the number of requests of size 1 made first, the request sizes
\* typed after that, how many of the first menu entries are picked, and the
\* number of operations after the first requests.
PoolGross == 1024
VorlaufLaenge == 257
RequestsGross == {1, 2, 4}
WahlGross == 3
MaxOpsGross == 3

\* The process numbers handed to the number functions. The largest number
\* of a pool of 32768 is 2 * 32768 - 1; the numbers used are all numbers up
\* to KleineNummern and the numbers around each change of the count of
\* digits and around the largest powers of two.
MaxNummer == 65535
KleineNummern == 2048
Randnummern == {9998, 9999, 10000, 10001, 16383, 16384, 16385,
                32767, 32768, 32769, 65534, MaxNummer}
Nummern == (1..KleineNummern) \cup Randnummern

\* Request sizes typed in the sessions that also type 0 (accepted by the
\* digits-only test of Zahlodernicht).
RequestsEingabe == {0, 1, 2, 16}

\* Pool sizes typed with a leading zero, the request sizes typed in those
\* sessions and the number of their operations.
PoolTexte == {<<0, 2>>, <<0, 1, 0>>, <<0, 0, 1, 6>>}
RequestsFuehrendeNull == {1, 2, 3, 5, 8, 9, 10}
MaxOpsFuehrendeNull == 4

\* The scripted session: the order of the menu entries chosen.
Drehbuch == <<"Zuweisung", "Zuweisung", "Zuweisung", "Zuweisung", "Zuweisung",
              "Prozessstop", "Prozessstop", "Prozessstop", "Prozessstop",
              "Zuweisung", "Zuweisung", "Zuweisung", "Prozessstop">>

\* ------------------------------------------------------- program constants
\* Initial value of Sicherung in freieBuddyAnfrage.
SicherungInit == 100000

\* Value of ergebnis that signals "no free buddy found".
KeinBuddy == 65536

\* Width of a shell exit status (return $ergebnis ; Buddiestelle=$?).
ExitStatusMod == 256

\* Width of the textual process number.
IdWidth == 5

\* The cap of testtest, compared as a string.
MaxMemory == 32768

\* ------------------------------------------------------------ bash strings
Unset == <<10>>

RECURSIVE NatToStr(_)
\* Decimal text of a natural number, as printed by expr and $(( )).
NatToStr(n) == IF n < 10 THEN <<n>> ELSE NatToStr(n \div 10) \o <<n % 10>>

RECURSIVE StrToNat(_)
\* Arithmetic value of a digit string; the empty string evaluates to 0.
StrToNat(s) ==
  IF s = <<>> THEN 0
  ELSE 10 * StrToNat(SubSeq(s, 1, Len(s) - 1)) + s[Len(s)]

RECURSIVE OktalWert(_)
\* Value of a digit string read to the base 8.
OktalWert(s) ==
  IF s = <<>> THEN 0
  ELSE 8 * OktalWert(SubSeq(s, 1, Len(s) - 1)) + s[Len(s)]

\* Value of a digit string in [[ -ge ]], $(( )) and declare -i: a number
\* written with a leading 0 is read to the base 8. (expr reads every digit
\* string to the base 10, which is StrToNat. A string with a leading 0 and a
\* digit 8 or 9 makes the shell report an error; no such string is typed in
\* the sessions modelled.)
Zahl(s) == IF Len(s) > 1 /\ s[1] = 0 THEN OktalWert(s) ELSE StrToNat(s)

\* ${s:off} (0-based offset).
Substr(s, off) == IF off >= Len(s) THEN <<>> ELSE SubSeq(s, off + 1, Len(s))

\* ${s:off:n} (0-based offset).
SubstrN(s, off, n) ==
  IF off >= Len(s) THEN <<>>
  ELSE SubSeq(s, off + 1, IF off + n > Len(s) THEN Len(s) ELSE off + n)

RECURSIVE neueProzessNummer(_)
\* Left-pads with zeros up to length 5; longer strings are left alone.
neueProzessNummer(s) ==
  IF Len(s) < IdWidth THEN neueProzessNummer(<<0>> \o s) ELSE s

\* Same padding loop, second copy in the script.
ProzessIDString(s) == neueProzessNummer(s)

RECURSIVE StripZeros(_, _)
StripZeros(s, k) ==
  IF k = 0 THEN s
  ELSE IF s # <<>> /\ s[1] = 0 THEN StripZeros(Tail(s), k - 1)
       ELSE StripZeros(s, k - 1)

\* Three rounds of "drop one leading 0".
ProzessIDintDreiRunden(id) == StripZeros(id, 3)

\* Five rounds of "drop one leading 0".
ProzessIDint(id) == StripZeros(id, IdWidth)

\* First character of a record: "0" free, "1" allocated.
belegtodernicht(e) == SubstrN(e, 0, 1)

\* Characters 2..6 of a record: the process number.
ProzessID(e) == SubstrN(e, 1, IdWidth)

\* Characters 7.. of a record: the size.
PartitionSize(e) == Substr(e, 6)

\* ${e/#1/0}
Freilegen(e) == IF e # <<>> /\ e[1] = 1 THEN <<0>> \o Tail(e) ELSE e

\* ${e/#0/1}
Belegen(e) == IF e # <<>> /\ e[1] = 0 THEN <<1>> \o Tail(e) ELSE e

\* A parent that rounds an odd number up instead of down.
ursprungsBuddyAufgerundet(Mo) ==
  LET IntID == StrToNat(ProzessIDint(Mo))
  IN  IF IntID % 2 = 0 THEN ProzessIDString(NatToStr(IntID \div 2))
      ELSE ProzessIDString(NatToStr((IntID + 1) \div 2))

\* Parent of a process number (text in, 5-digit text out).
ursprungsBuddy(Mo) ==
  LET IntID == StrToNat(ProzessIDint(Mo))
  IN  IF IntID % 2 = 0 THEN ProzessIDString(NatToStr(IntID \div 2))
      ELSE ProzessIDString(NatToStr((IntID - 1) \div 2))

\* A sibling that is the next number for odd numbers too.
zugehoerigerBuddyImmerPlus(Jo) ==
  LET IntID == StrToNat(ProzessIDint(Jo))
  IN  ProzessIDString(NatToStr(IntID + 1))

\* Sibling of a process number (text in, 5-digit text out).
zugehoerigerBuddy(Jo) ==
  LET IntID == StrToNat(ProzessIDint(Jo))
  IN  IF IntID % 2 = 0 THEN ProzessIDString(NatToStr(IntID + 1))
      ELSE ProzessIDString(NatToStr(IntID - 1))

\* ------------------------------------------------------------- bash arrays
IsSet(x) == x # Unset

\* ${#a[@]}
Count(a) == Cardinality({k \in DOMAIN a : IsSet(a[k])})

\* ${a[i]}
At(a, i) == IF i >= 0 /\ i + 1 \in DOMAIN a /\ IsSet(a[i + 1]) THEN a[i + 1] ELSE <<>>

RECURSIVE Trim(_)
Trim(a) ==
  IF a # <<>> /\ a[Len(a)] = Unset THEN Trim(SubSeq(a, 1, Len(a) - 1)) ELSE a

\* unset a[i]
UnsetAt(a, i) ==
  IF i >= 0 /\ i + 1 \in DOMAIN a THEN Trim([a EXCEPT ![i + 1] = Unset]) ELSE a

\* a[i]=v
SetAt(a, i, v) ==
  IF i + 1 \in DOMAIN a THEN [a EXCEPT ![i + 1] = v]
  ELSE [k \in 1..(i + 1) |-> IF k \in DOMAIN a THEN a[k] ELSE IF k = i + 1 THEN v ELSE Unset]

\* "${a[@]}"
Quoted(a) == SelectSeq(a, IsSet)

NonEmptyWord(x) == x # Unset /\ x # <<>>

\* ${a[@]} (unquoted: empty elements vanish in word splitting)
Words(a) == SelectSeq(a, NonEmptyWord)

\* "${a[@]:off}": the set elements with index >= off
SliceFrom(a, off) ==
  IF off >= Len(a) THEN <<>> ELSE Quoted(SubSeq(a, off + 1, Len(a)))

\* "${a[@]:off:n}": the first n set elements with index >= off
SliceN(a, off, n) ==
  LET rest == SliceFrom(a, off)
  IN  IF n >= Len(rest) THEN rest ELSE SubSeq(rest, 1, n)

\* ---------------------------------------------------------------- Allocator
\* [[ $BuddySize -lt $Sicherung ]]
Kleiner(BuddySize, Sicherung) == BuddySize < Sicherung

\* The loops of the script that run over a whole table are written as one
\* operator for a pass of the loop, taking and giving the variables of the
\* loop as a record z with the loop counter in it, and one operator for the
\* passes down to the index unten (or up to oben). The latter runs the first
\* half of the passes and then the rest from where the counter stands, so
\* that a table of several hundred records is evaluated without deep nesting.

\* One pass of the for loop of freieBuddyAnfrage, with its i--; z holds i,
\* Sicherung and ergebnis.
BuddySchritt(liste, prozessSize, z) ==
  LET BuddySize == Zahl(PartitionSize(At(liste, z.i)))
      FreiOrNot == StrToNat(belegtodernicht(At(liste, z.i)))
  IN  IF BuddySize >= prozessSize /\ FreiOrNot # 1 /\ Kleiner(BuddySize, z.Sicherung)
      THEN [i |-> z.i - 1, Sicherung |-> BuddySize, ergebnis |-> z.i]
      ELSE [z EXCEPT !.i = z.i - 1]

RECURSIVE BuddyScan(_, _, _, _)
\* The for loop of freieBuddyAnfrage, from z.i while i >= unten.
BuddyScan(liste, prozessSize, z, unten) ==
  IF z.i < unten THEN z
  ELSE IF z.i = unten THEN BuddySchritt(liste, prozessSize, z)
  ELSE BuddyScan(liste, prozessSize,
                 BuddyScan(liste, prozessSize, z, (z.i + unten + 1) \div 2), unten)

\* Best-fit search: the global ergebnis it leaves behind.
freieBuddyAnfrage(liste, prozessSize) ==
  LET r == BuddyScan(liste, prozessSize,
                     [i |-> Count(liste) - 1, Sicherung |-> SicherungInit, ergebnis |-> 0], 0)
  IN  IF r.Sicherung = SicherungInit THEN KeinBuddy ELSE r.ergebnis

\* Buddiestelle=$? : the exit status of freieBuddyAnfrage.
Buddiestelle(liste, prozessSize) == freieBuddyAnfrage(liste, prozessSize) % ExitStatusMod

\* A loop condition that halves two times too often.
SchleifeWeiterZuLang(prozessSize, BuddySize) == prozessSize <= BuddySize * 2

\* while [[ $(($prozessSize*2)) -le $BuddySize ]]
SchleifeWeiter(prozessSize, BuddySize) == prozessSize * 2 <= BuddySize

\* A split that goes on with the block whose number was just given away.
NaechsteNummerGleicherBlock(nPN) == nPN * 2

\* nPN=$(( ($nPN + 1) * 2 ))
NaechsteNummer(nPN) == (nPN + 1) * 2

RECURSIVE SplitLoop(_, _, _, _)
\* The while loop of Prozesszuweisung; yields neueBuddies, nPN and BuddySize.
\* BuddySize is the text of the size: the loop test reads it with [[ -le ]],
\* the halving with expr.
SplitLoop(prozessSize, nPN, BuddySize, neueBuddies) ==
  IF SchleifeWeiter(prozessSize, Zahl(BuddySize))
  THEN LET halb == NatToStr(StrToNat(BuddySize) \div 2)
           neuerBuddy == <<0>> \o neueProzessNummer(NatToStr(nPN)) \o halb
       IN  SplitLoop(prozessSize, NaechsteNummer(nPN), halb, Append(neueBuddies, neuerBuddy))
  ELSE [neueBuddies |-> neueBuddies, nPN |-> nPN, BuddySize |-> BuddySize]

\* The records and the registry entry produced by the split branch.
SplitErgebnis(prozessSize, besterBuddy) ==
  LET l == SplitLoop(prozessSize, StrToNat(ProzessID(besterBuddy)) * 2,
                     PartitionSize(besterBuddy), <<>>)
      ProzessNummerString == neueProzessNummer(NatToStr(l.nPN \div 2))
  IN  [neueBuddies |-> Append(l.neueBuddies,
                              <<1>> \o ProzessNummerString \o l.BuddySize),
       ProzessNummerString |-> ProzessNummerString]

RECURSIVE SchleifeEndet(_, _)
\* Whether the while loop of Prozesszuweisung is ever left: BuddySize (the
\* text of the size) is halved until prozessSize * 2 > BuddySize; at
\* BuddySize = 0 it stays 0.
SchleifeEndet(prozessSize, BuddySize) ==
  IF prozessSize * 2 > Zahl(BuddySize) THEN TRUE
  ELSE IF StrToNat(BuddySize) = 0 THEN FALSE
  ELSE SchleifeEndet(prozessSize, NatToStr(StrToNat(BuddySize) \div 2))

\* Prozesszuweisung never returns: a buddy was found and the while loop
\* does not end.
ZuweisungHaengt(liste, prozessSize) ==
  /\ freieBuddyAnfrage(liste, prozessSize) # KeinBuddy
  /\ ~SchleifeEndet(prozessSize,
                    PartitionSize(At(liste, Buddiestelle(liste, prozessSize))))

\* Prozesszuweisung: the new ganzebuddyliste / besetzeProzessliste and whether
\* the "Prozess konnte nicht zugewiesen werden" message was printed.
Prozesszuweisung(liste, prozessliste, prozessSize) ==
  LET stelle == Buddiestelle(liste, prozessSize)
      besterBuddy == At(liste, stelle)
  IN  IF freieBuddyAnfrage(liste, prozessSize) = KeinBuddy
      THEN [liste |-> liste, prozessliste |-> prozessliste, ok |-> FALSE, nr |-> <<>>]
      ELSE IF prozessSize * 2 > Zahl(PartitionSize(besterBuddy))
      THEN [liste |-> SliceN(liste, 0, stelle) \o <<Belegen(besterBuddy)>>
                        \o SliceFrom(liste, stelle + 1),
            prozessliste |-> Append(Quoted(prozessliste),
                                    neueProzessNummer(ProzessID(besterBuddy))),
            ok |-> TRUE, nr |-> neueProzessNummer(ProzessID(besterBuddy))]
      ELSE LET sp == SplitErgebnis(prozessSize, besterBuddy)
           IN  [liste |-> Words(SliceN(liste, 0, stelle)) \o Words(sp.neueBuddies)
                            \o Words(SliceFrom(liste, stelle + 1)),
                prozessliste |-> Append(Quoted(prozessliste), sp.ProzessNummerString),
                ok |-> TRUE, nr |-> sp.ProzessNummerString]


\* -------------------------------------------------------------- Deallocator
\* One pass of the first loop of Prozessfreigabe, with its j--; z holds j
\* and Freigabestelle.
FindeSchritt(liste, auswahl, z) ==
  [j |-> z.j - 1,
   Freigabestelle |-> IF auswahl = ProzessID(At(liste, z.j)) THEN z.j ELSE z.Freigabestelle]

RECURSIVE FindeFreigabestelle(_, _, _, _)
\* First loop of Prozessfreigabe, from z.j while j >= unten: it leaves the
\* lowest index holding Prozessauswahl, or the previous value of
\* Freigabestelle when no record matches.
FindeFreigabestelle(liste, auswahl, z, unten) ==
  IF z.j < unten THEN z
  ELSE IF z.j = unten THEN FindeSchritt(liste, auswahl, z)
  ELSE FindeFreigabestelle(liste, auswahl,
                           FindeFreigabestelle(liste, auswahl, z, (z.j + unten + 1) \div 2),
                           unten)

\* One pass of the first loop of zusammenfuhr, with its a--; z holds a and
\* newBae.
ElternSchritt(liste, bro, quelle, z) ==
  [a |-> z.a - 1,
   newBae |-> IF ProzessID(At(liste, z.a)) = bro
              THEN LET BuddySize == PartitionSize(At(liste, z.a))
                       newBaeSize == IF BuddySize = <<>> THEN <<>>
                                     ELSE NatToStr(StrToNat(BuddySize) * 2)
                   IN  <<0>> \o quelle \o newBaeSize
              ELSE z.newBae]

RECURSIVE NeuerElternBuddy(_, _, _, _, _)
\* First loop of zusammenfuhr, from z.a while a >= unten: newBae built from
\* the sibling's size.
NeuerElternBuddy(liste, bro, quelle, z, unten) ==
  IF z.a < unten THEN z
  ELSE IF z.a = unten THEN ElternSchritt(liste, bro, quelle, z)
  ELSE NeuerElternBuddy(liste, bro, quelle,
                        NeuerElternBuddy(liste, bro, quelle, z, (z.a + unten + 1) \div 2),
                        unten)

\* One pass of the second loop of zusammenfuhr, with its b--; z holds b and
\* the table: unset the record of Prozessauswahl, followed by
\* ganzebuddyliste=$ganzebuddyliste (index 0 := ${liste[0]}).
UrsprungSchritt(auswahl, z) ==
  [b |-> z.b - 1,
   liste |-> IF ProzessID(At(z.liste, z.b)) = auswahl
             THEN LET ohne == UnsetAt(z.liste, z.b)
                  IN  SetAt(ohne, 0, At(ohne, 0))
             ELSE z.liste]

RECURSIVE EntferneUrsprung(_, _, _)
\* Second loop of zusammenfuhr, from z.b while b >= unten.
EntferneUrsprung(auswahl, z, unten) ==
  IF z.b < unten THEN z
  ELSE IF z.b = unten THEN UrsprungSchritt(auswahl, z)
  ELSE EntferneUrsprung(auswahl,
                        EntferneUrsprung(auswahl, z, (z.b + unten + 1) \div 2), unten)

\* One pass of the third loop of zusammenfuhr, with its c--; z holds c and
\* the table: unset the sibling and rebuild the array with newBae appended.
BruderSchritt(bro, newBae, z) ==
  [c |-> z.c - 1,
   liste |-> IF ProzessID(At(z.liste, z.c)) = bro
             THEN Append(Quoted(UnsetAt(z.liste, z.c)), newBae)
             ELSE z.liste]

RECURSIVE EntferneBruder(_, _, _, _)
\* Third loop of zusammenfuhr, from z.c while c >= unten.
EntferneBruder(bro, newBae, z, unten) ==
  IF z.c < unten THEN z
  ELSE IF z.c = unten THEN BruderSchritt(bro, newBae, z)
  ELSE EntferneBruder(bro, newBae,
                      EntferneBruder(bro, newBae, z, (z.c + unten + 1) \div 2), unten)

\* A release that forgets to flip the status character.
FreigelegtVergessen(liste, stelle) == liste

\* ganzebuddyliste[$Freigabestelle]=${ganzebuddyliste[$Freigabestelle]/#1/0}
Freigelegt(liste, stelle) == SetAt(liste, stelle, Freilegen(At(liste, stelle)))

\* A root case that keeps the list of running processes.
WurzelFreigabeOhneUnset(g) ==
  [g EXCEPT !.liste = SetAt(g.liste, 0, Freilegen(At(g.liste, 0)))]

\* The root case of Prozessfreigabe (Bro == Quelle): index 0 of the table is
\* set free and besetzeProzessliste is unset.
WurzelFreigabe(g) ==
  [g EXCEPT !.liste = SetAt(g.liste, 0, Freilegen(At(g.liste, 0))),
            !.prozessliste = <<>>]

RECURSIVE Prozessfreigabe(_)
RECURSIVE BruderSchleife(_, _)
RECURSIVE zusammenfuhr(_)

\* The globals the release code reads and writes, as one record g:
\* liste, prozessliste, Prozessauswahl, Freigabestelle, newBae, Bro, Quelle,
\* i (the shared loop counter) and merges (number of zusammenfuhr calls).
zusammenfuhr(g) ==
  LET newBae == NeuerElternBuddy(g.liste, g.Bro, g.Quelle,
                                 [a |-> Count(g.liste) - 1, newBae |-> g.newBae], 0).newBae
      l2 == EntferneUrsprung(g.Prozessauswahl,
                             [b |-> Count(g.liste), liste |-> g.liste], 0).liste
      l3 == EntferneBruder(g.Bro, newBae, [c |-> Count(l2), liste |-> l2], 0).liste
  IN  Prozessfreigabe([g EXCEPT !.liste = l3, !.newBae = newBae,
                                !.Prozessauswahl = ProzessID(newBae),
                                !.merges = g.merges + 1])

\* One pass of the sibling scan loop of Prozessfreigabe, at index g.i,
\* with the i-- that follows it.
SchleifenSchritt(g) ==
  LET e == At(g.liste, g.i)
      FreiOrNot == belegtodernicht(e)
      weiter(h) == [h EXCEPT !.i = h.i - 1]
      frei == [g EXCEPT !.liste = Freigelegt(g.liste, g.Freigabestelle)]
  IN  IF ProzessID(e) = g.Bro
      THEN IF FreiOrNot = <<1>> THEN weiter(frei)
           ELSE IF FreiOrNot = <<0>> THEN weiter(zusammenfuhr(g))
           ELSE weiter(g)
      ELSE IF FreiOrNot = <<1>> THEN weiter(frei)
           ELSE weiter(g)

\* The sibling scan loop of Prozessfreigabe, continuing at g.i and running
\* while i >= unten.
BruderSchleife(g, unten) ==
  IF g.i < unten THEN g
  ELSE IF g.i = unten THEN SchleifenSchritt(g)
  ELSE BruderSchleife(BruderSchleife(g, (g.i + unten + 1) \div 2), unten)

Prozessfreigabe(g) ==
  LET stelle == FindeFreigabestelle(g.liste, g.Prozessauswahl,
                                    [j |-> Count(g.liste) - 1,
                                     Freigabestelle |-> g.Freigabestelle], 0).Freigabestelle
      Bro == zugehoerigerBuddy(g.Prozessauswahl)
      Quelle == ursprungsBuddy(g.Prozessauswahl)
      h == [g EXCEPT !.Freigabestelle = stelle, !.Bro = Bro, !.Quelle = Quelle]
  IN  IF Bro = Quelle
      THEN WurzelFreigabe(h)
      ELSE BruderSchleife([h EXCEPT !.i = Count(g.liste) - 1], 0)

\* One pass of the removal loop of the Prozessstop branch of auswahl, with
\* its m++; z holds m and the registry. The loop condition
\* m <= ${#besetzeProzessliste[@]}+1 is evaluated on the array as it is then.
EntferneSchritt(AnfangsProzess, z) ==
  [m |-> z.m + 1,
   prozessliste |->
     IF z.m > Count(z.prozessliste) + 1 THEN z.prozessliste
     ELSE IF AnfangsProzess = At(z.prozessliste, z.m)
          THEN LET ohne == UnsetAt(z.prozessliste, z.m)
               IN  SetAt(ohne, 0, At(ohne, 0))
          ELSE z.prozessliste]

RECURSIVE EntferneBis(_, _, _)
\* The passes of the removal loop from z.m while m <= oben.
EntferneBis(AnfangsProzess, z, oben) ==
  IF z.m > oben THEN z
  ELSE IF z.m = oben THEN EntferneSchritt(AnfangsProzess, z)
  ELSE EntferneBis(AnfangsProzess,
                   EntferneBis(AnfangsProzess, z, (z.m + oben) \div 2), oben)

\* The removal loop of the Prozessstop branch of auswahl, starting at m. The
\* count never grows during the loop, so no pass beyond the first count + 1
\* does anything.
EntferneProzess(prozessliste, AnfangsProzess, m) ==
  EntferneBis(AnfangsProzess, [m |-> m, prozessliste |-> prozessliste],
              Count(prozessliste) + 1).prozessliste


\* ------------------------------------------------------------------ start-up
RECURSIVE StringGroesser(_, _)
\* [[ a > b ]]: lexicographic comparison of two strings.
StringGroesser(a, b) ==
  IF a = <<>> THEN FALSE
  ELSE IF b = <<>> THEN TRUE
  ELSE IF a[1] # b[1] THEN a[1] > b[1]
  ELSE StringGroesser(Tail(a), Tail(b))

RECURSIVE Halbierbar(_)
Halbierbar(n) == IF n = 1 THEN TRUE ELSE IF n % 2 = 1 THEN FALSE ELSE Halbierbar(n \div 2)

\* (( n > 0 && (n & (n - 1)) == 0 ))
is_power_of_two(n) == n > 0 /\ Halbierbar(n)

\* testtest keeps the typed digit string iff the number that declare -i
\* reads from it is a power of two and the string is not greater than the
\* string "32768".
testtest(eingabe) ==
  /\ is_power_of_two(Zahl(eingabe))
  /\ ~StringGroesser(eingabe, NatToStr(MaxMemory))

\* ------------------------------------------------------------ state machine
VARIABLES memory, ganzebuddyliste, besetzeProzessliste, Prozessauswahl,
          AnfangsProzess, Freigabestelle, newBae, ops, letzte, pc

vars == <<memory, ganzebuddyliste, besetzeProzessliste, Prozessauswahl,
          AnfangsProzess, Freigabestelle, newBae, ops, letzte, pc>>

\* pc is "auswahl" while the program waits at the menu and "while" once it
\* is caught in the while loop of Prozesszuweisung.

\* letzte records the last menu operation: its kind, its input, the arrays
\* before it, the registry as Prozessfreigabe left it, and the merge count.
Protokoll(op, arg, ok, nr, vorListe, vorProzessliste, nachFreigabe, merges) ==
  [op |-> op, arg |-> arg, ok |-> ok, nr |-> nr, vorListe |-> vorListe,
   vorProzessliste |-> vorProzessliste, nachFreigabe |-> nachFreigabe,
   merges |-> merges]

\* Main: memory="000001$memory", one free record, empty registry.
Init ==
  /\ memory \in {eingabe \in PoolEingaben : testtest(NatToStr(eingabe))}
  /\ ganzebuddyliste = << <<0, 0, 0, 0, 0, 1>> \o NatToStr(memory) >>
  /\ besetzeProzessliste = <<>>
  /\ Prozessauswahl = <<>>
  /\ AnfangsProzess = <<>>
  /\ Freigabestelle = 0
  /\ newBae = <<>>
  /\ ops = 0
  /\ letzte = Protokoll("Start", 0, TRUE, <<>>, <<>>, <<>>, <<>>, 0)
  /\ pc = "auswahl"

\* Menu entry "Zuweisung" with the size prozesssize typed by the user.
ZuweisungSchritt(prozesssize) ==
  LET z == Prozesszuweisung(ganzebuddyliste, besetzeProzessliste, prozesssize)
  IN  /\ pc = "auswahl"
      /\ IF ZuweisungHaengt(ganzebuddyliste, prozesssize)
         THEN /\ pc' = "while"
              /\ letzte' = Protokoll("Zuweisung", prozesssize, FALSE, <<>>,
                                     ganzebuddyliste, besetzeProzessliste, <<>>, 0)
              /\ UNCHANGED <<ganzebuddyliste, besetzeProzessliste>>
         ELSE /\ pc' = "auswahl"
              /\ ganzebuddyliste' = z.liste
              /\ besetzeProzessliste' = z.prozessliste
              /\ letzte' = Protokoll("Zuweisung", prozesssize, z.ok, z.nr,
                                     ganzebuddyliste, besetzeProzessliste, <<>>, 0)
      /\ ops' = ops + 1
      /\ UNCHANGED <<memory, Prozessauswahl, AnfangsProzess, Freigabestelle, newBae>>

\* The process numbers offered by the select menu of ProzessNummerAuswahl.
Menue(prozessliste) == {prozessliste[k] : k \in {n \in DOMAIN prozessliste :
                                                  NonEmptyWord(prozessliste[n])}}

\* Menu entry "Prozessstop" with the menu item wahl picked by the user:
\* Prozessfreigabe, then the removal loop.
ProzessstopSchritt(wahl) ==
  LET g == Prozessfreigabe([liste |-> ganzebuddyliste,
                            prozessliste |-> besetzeProzessliste,
                            Prozessauswahl |-> wahl, Freigabestelle |-> Freigabestelle,
                            newBae |-> newBae, Bro |-> <<>>, Quelle |-> <<>>,
                            i |-> 0, merges |-> 0])
  IN  /\ pc = "auswahl"
      /\ Count(besetzeProzessliste) > 0
      /\ wahl \in Menue(besetzeProzessliste)
      /\ ganzebuddyliste' = g.liste
      /\ besetzeProzessliste' = EntferneProzess(g.prozessliste, wahl, 0)
      /\ Prozessauswahl' = g.Prozessauswahl
      /\ AnfangsProzess' = wahl
      /\ Freigabestelle' = g.Freigabestelle
      /\ newBae' = g.newBae
      /\ ops' = ops + 1
      /\ letzte' = Protokoll("Prozessstop", wahl, TRUE, wahl, ganzebuddyliste,
                             besetzeProzessliste, g.prozessliste, g.merges)
      /\ UNCHANGED <<memory, pc>>

\* Menu inputs that are left out: "Prozessstop" while besetzeProzessliste
\* is empty (prints the table and changes nothing), a number typed at the
\* select prompt that is not in the menu, and "Programmbeendigung".
\* Freigabestelle is unset until the first release; the first release always
\* finds its record, so the start value 0 is never read.

\* Any session of at most MaxOps menu operations.
Zuweisung(prozesssize) == ops < MaxOps /\ ZuweisungSchritt(prozesssize)

Prozessstop(wahl) == ops < MaxOps /\ ProzessstopSchritt(wahl)

Next ==
  \/ \E prozesssize \in Requests \cup {memory} : Zuweisung(prozesssize)
  \/ \E wahl \in Menue(besetzeProzessliste) : Prozessstop(wahl)

Spec == Init /\ [][Next]_vars

\* The scripted session: the menu entries follow Drehbuch, the sizes typed and
\* the processes picked are free.
SzenarioZuweisung(prozesssize) ==
  /\ ops < Len(Drehbuch)
  /\ Drehbuch[ops + 1] = "Zuweisung"
  /\ ZuweisungSchritt(prozesssize)

SzenarioProzessstop(wahl) ==
  /\ ops < Len(Drehbuch)
  /\ Drehbuch[ops + 1] = "Prozessstop"
  /\ ProzessstopSchritt(wahl)

NextSzenario ==
  \/ \E prozesssize \in RequestsSzenario : SzenarioZuweisung(prozesssize)
  \/ \E wahl \in Menue(besetzeProzessliste) : SzenarioProzessstop(wahl)

SpecSzenario == Init /\ [][NextSzenario]_vars

\* A fresh pool of PoolGross.
InitGross ==
  /\ memory = PoolGross
  /\ testtest(NatToStr(PoolGross))
  /\ ganzebuddyliste = << <<0, 0, 0, 0, 0, 1>> \o NatToStr(memory) >>
  /\ besetzeProzessliste = <<>>
  /\ Prozessauswahl = <<>>
  /\ AnfangsProzess = <<>>
  /\ Freigabestelle = 0
  /\ newBae = <<>>
  /\ ops = 0
  /\ letzte = Protokoll("Start", 0, TRUE, <<>>, <<>>, <<>>, <<>>, 0)
  /\ pc = "auswahl"

\* The session starts with VorlaufLaenge requests of size 1.
Vorlauf ==
  /\ ops < VorlaufLaenge
  /\ ZuweisungSchritt(1)

\* The first WahlGross entries of the menu.
MenueAnfang(prozessliste) ==
  LET w == Words(prozessliste)
  IN  {w[k] : k \in 1..(IF Len(w) < WahlGross THEN Len(w) ELSE WahlGross)}

ZuweisungGross(prozesssize) ==
  /\ VorlaufLaenge <= ops /\ ops < VorlaufLaenge + MaxOpsGross
  /\ ZuweisungSchritt(prozesssize)

ProzessstopGross(wahl) ==
  /\ VorlaufLaenge <= ops /\ ops < VorlaufLaenge + MaxOpsGross
  /\ ProzessstopSchritt(wahl)

NextGross ==
  \/ Vorlauf
  \/ \E prozesssize \in RequestsGross : ZuweisungGross(prozesssize)
  \/ \E wahl \in MenueAnfang(besetzeProzessliste) : ProzessstopGross(wahl)

SpecGross == InitGross /\ [][NextGross]_vars

\* Sessions of at most MaxOps operations in which the size 0 is typed too.
NextEingabe ==
  \/ \E prozesssize \in RequestsEingabe : Zuweisung(prozesssize)
  \/ \E wahl \in Menue(besetzeProzessliste) : Prozessstop(wahl)

SpecEingabe == Init /\ [][NextEingabe]_vars

\* Sessions whose pool size was typed with a leading zero. memory is the
\* number a reader takes the typed digits for; the record of the pool holds
\* the digits as typed (memory="000001$memory").
InitFuehrendeNull ==
  \E eingabe \in PoolTexte :
    /\ testtest(eingabe)
    /\ memory = StrToNat(eingabe)
    /\ ganzebuddyliste = << <<0, 0, 0, 0, 0, 1>> \o eingabe >>
    /\ besetzeProzessliste = <<>>
    /\ Prozessauswahl = <<>>
    /\ AnfangsProzess = <<>>
    /\ Freigabestelle = 0
    /\ newBae = <<>>
    /\ ops = 0
    /\ letzte = Protokoll("Start", 0, TRUE, <<>>, <<>>, <<>>, <<>>, 0)
    /\ pc = "auswahl"

ZuweisungFuehrendeNull(prozesssize) ==
  ops < MaxOpsFuehrendeNull /\ ZuweisungSchritt(prozesssize)

ProzessstopFuehrendeNull(wahl) ==
  ops < MaxOpsFuehrendeNull /\ ProzessstopSchritt(wahl)

NextFuehrendeNull ==
  \/ \E prozesssize \in RequestsFuehrendeNull : ZuweisungFuehrendeNull(prozesssize)
  \/ \E wahl \in Menue(besetzeProzessliste) : ProzessstopFuehrendeNull(wahl)

SpecFuehrendeNull == InitFuehrendeNull /\ [][NextFuehrendeNull]_vars

\* The number functions on their own. letzte records the last call: its
\* name, its argument, its result and the number the text came from.
InitNummern ==
  /\ memory = MaxMemory
  /\ testtest(NatToStr(MaxMemory))
  /\ ganzebuddyliste = << <<0, 0, 0, 0, 0, 1>> \o NatToStr(memory) >>
  /\ besetzeProzessliste = <<>>
  /\ Prozessauswahl = <<>>
  /\ AnfangsProzess = <<>>
  /\ Freigabestelle = 0
  /\ newBae = <<>>
  /\ ops = 0
  /\ letzte = [op |-> "Start"]
  /\ pc = "auswahl"

NummernRest ==
  /\ ops' = ops + 1
  /\ UNCHANGED <<memory, ganzebuddyliste, besetzeProzessliste, Prozessauswahl,
                 AnfangsProzess, Freigabestelle, newBae, pc>>

\* neueProzessNummer $nummer : ProzessNummerString
RufeNeueProzessNummer(nummer) ==
  /\ letzte.op = "Start"
  /\ letzte' = [op |-> "neueProzessNummer", nummer |-> nummer,
                text |-> neueProzessNummer(NatToStr(nummer))]
  /\ NummernRest

\* ProzessIDString $nummer : StringID
RufeProzessIDString(nummer) ==
  /\ letzte.op = "Start"
  /\ letzte' = [op |-> "ProzessIDString", nummer |-> nummer,
                text |-> ProzessIDString(NatToStr(nummer))]
  /\ NummernRest

\* ProzessIDint on the text of the last call: IntID
RufeProzessIDint ==
  /\ letzte.op \in {"neueProzessNummer", "ProzessIDString"}
  /\ letzte' = [op |-> "ProzessIDint", nummer |-> letzte.nummer, text |-> letzte.text,
                IntID |-> ProzessIDint(letzte.text)]
  /\ NummernRest

\* zugehoerigerBuddy and ursprungsBuddy on the text of the last call, as in
\* Prozessfreigabe: Bro and Quelle
RufeBuddys ==
  /\ letzte.op = "ProzessIDString"
  /\ letzte' = [op |-> "Buddys", nummer |-> letzte.nummer, text |-> letzte.text,
                Bro |-> zugehoerigerBuddy(letzte.text),
                Quelle |-> ursprungsBuddy(letzte.text)]
  /\ NummernRest

\* The same two calls on the sibling just computed. The root is left out:
\* its sibling 00000 leaves ProzessIDint with an empty IntID, on which the
\* $(( $IntID % 2 )) of both functions stops with a syntax error.
RufeBuddysDesBruders ==
  /\ letzte.op = "Buddys"
  /\ letzte.nummer # 1
  /\ letzte' = [op |-> "BuddysDesBruders", nummer |-> letzte.nummer, text |-> letzte.text,
                vorBro |-> letzte.Bro, vorQuelle |-> letzte.Quelle,
                Bro |-> zugehoerigerBuddy(letzte.Bro),
                Quelle |-> ursprungsBuddy(letzte.Bro)]
  /\ NummernRest

NextNummern ==
  \/ \E nummer \in Nummern : RufeNeueProzessNummer(nummer)
  \/ \E nummer \in Nummern : RufeProzessIDString(nummer)
  \/ RufeProzessIDint
  \/ RufeBuddys
  \/ RufeBuddysDesBruders

SpecNummern == InitNummern /\ [][NextNummern]_vars


\* ------------------------------------------------- views used by the claims
\* A table entry as a BlockRecord: id, size and status read from the text.
Satz(e) ==
  [id |-> StrToNat(ProzessID(e)), size |-> StrToNat(PartitionSize(e)),
   status |-> IF belegtodernicht(e) = <<1>> THEN "Allocated" ELSE "Free"]

\* BlockTable: the records of ganzebuddyliste in table order (what
\* echo ${ganzebuddyliste[@]} lists; unset and empty elements are no records).
BlockTable(liste) == [k \in 1..Len(Words(liste)) |-> Satz(Words(liste)[k])]

\* The records of BlockTable as a set.
BlockRecords(liste) == {BlockTable(liste)[k] : k \in 1..Len(Words(liste))}

\* ProcessRegistry: the ids offered for release, in menu order.
ProcessRegistry(prozessliste) ==
  [k \in 1..Len(Words(prozessliste)) |-> StrToNat(Words(prozessliste)[k])]

RECURSIVE SummeGroessen(_, _)
SummeGroessen(tabelle, k) ==
  IF k > Len(tabelle) THEN 0 ELSE tabelle[k].size + SummeGroessen(tabelle, k + 1)

RECURSIVE IstVorfahr(_, _)
\* a is reached from b by repeated parent steps (at least one).
IstVorfahr(a, b) == b > 1 /\ (b \div 2 = a \/ IstVorfahr(a, b \div 2))

\* The pool root as text.
WurzelNummer == <<0, 0, 0, 0, 1>>

\* ------------------------------------------------------------------ claims
\* C1: after any sequence of allocate / release operations the sizes of all
\* BlockTable records sum to PoolSize.
C1_PartitionSum == SummeGroessen(BlockTable(ganzebuddyliste), 1) = memory

\* C2: BlockTable is a frontier of the buddy tree: all record ids are
\* distinct and no record's id is an ancestor of another record's id.
C2_Frontier ==
  LET t == BlockTable(ganzebuddyliste)
  IN  \A j, k \in DOMAIN t :
        j # k => /\ t[j].id # t[k].id
                 /\ ~IstVorfahr(t[j].id, t[k].id)

\* C3: ProcessRegistry holds no id twice and every entry is the id of exactly
\* one record that is currently Allocated in BlockTable.
C3_RegistryAllocated ==
  LET r == ProcessRegistry(besetzeProzessliste)
      t == BlockTable(ganzebuddyliste)
  IN  /\ \A j, k \in DOMAIN r : j # k => r[j] # r[k]
      /\ \A j \in DOMAIN r :
           Cardinality({k \in DOMAIN t : t[k].id = r[j] /\ t[k].status = "Allocated"}) = 1

\* C4: a successful allocate(r) returning id, immediately followed by
\* release(id), leaves BlockTable with the same set of records as before the
\* allocate call.
C4_RoundTrip ==
  [][(/\ letzte.op = "Zuweisung" /\ letzte.ok
      /\ letzte'.op = "Prozessstop" /\ letzte'.arg = letzte.nr)
     => BlockRecords(ganzebuddyliste') = BlockRecords(letzte.vorListe)]_vars

\* C5: whenever the pool root is the Allocated record and release(1) is
\* invoked, BlockTable afterwards is exactly the one Free record with id 1 and
\* size PoolSize, and ProcessRegistry is empty after the caller's removal.
C5_RootRelease ==
  (/\ letzte.op = "Prozessstop" /\ letzte.arg = WurzelNummer
   /\ [id |-> 1, size |-> memory, status |-> "Allocated"] \in BlockRecords(letzte.vorListe))
  => /\ BlockTable(ganzebuddyliste) = << [id |-> 1, size |-> memory, status |-> "Free"] >>
     /\ ProcessRegistry(besetzeProzessliste) = <<>>


RECURSIVE Log2(_)
Log2(n) == IF n <= 1 THEN 0 ELSE 1 + Log2(n \div 2)

FreieSaetze(liste) == {k \in DOMAIN BlockTable(liste) : BlockTable(liste)[k].status = "Free"}

BelegteSaetze(liste) ==
  {k \in DOMAIN BlockTable(liste) : BlockTable(liste)[k].status = "Allocated"}

\* C6: allocate(r) reports AllocationFailed exactly when no Free record has
\* size >= r, and then BlockTable and ProcessRegistry are as before the call.
C6_AllocationFailed ==
  letzte.op = "Zuweisung"
  => /\ ~letzte.ok <=> ~\E s \in BlockRecords(letzte.vorListe) :
                            s.status = "Free" /\ s.size >= letzte.arg
     /\ ~letzte.ok => /\ ganzebuddyliste = letzte.vorListe
                      /\ besetzeProzessliste = letzte.vorProzessliste

\* C7: allocate(PoolSize) succeeds if and only if BlockTable is the single
\* Free root record.
C7_WholePool ==
  (letzte.op = "Zuweisung" /\ letzte.arg = memory)
  => (letzte.ok <=> BlockTable(letzte.vorListe)
                      = << [id |-> 1, size |-> memory, status |-> "Free"] >>)

\* C8: on the initial table, allocate(r) with r a power of two and
\* r <= PoolSize adds exactly log2(PoolSize / r) Free records and one
\* Allocated record of size r.
C8_SplitCount ==
  (/\ letzte.op = "Zuweisung"
   /\ letzte.vorListe = << <<0>> \o WurzelNummer \o NatToStr(memory) >>
   /\ is_power_of_two(letzte.arg) /\ letzte.arg <= memory)
  => /\ Cardinality(FreieSaetze(ganzebuddyliste)) = Log2(memory \div letzte.arg)
     /\ Cardinality(BelegteSaetze(ganzebuddyliste)) = 1
     /\ \A k \in BelegteSaetze(ganzebuddyliste) :
          BlockTable(ganzebuddyliste)[k].size = letzte.arg

\* The case of C9: the released id is an Allocated non-root record and its
\* sibling is not in the table as a Free record.
C9_Fall ==
  /\ letzte.op = "Prozessstop"
  /\ letzte.arg # WurzelNummer
  /\ \E s \in BlockRecords(letzte.vorListe) :
       s.id = StrToNat(letzte.arg) /\ s.status = "Allocated"
  /\ ~\E s \in BlockRecords(letzte.vorListe) :
       s.id = StrToNat(zugehoerigerBuddy(letzte.arg)) /\ s.status = "Free"

\* C9: releasing an Allocated non-root record whose sibling is not present as
\* a Free record only turns that record Free: no record is added or removed
\* and every id and size stays as it was.
C9_NoCoalesce ==
  C9_Fall
  => LET vt == BlockTable(letzte.vorListe)
     IN  BlockTable(ganzebuddyliste)
           = [k \in DOMAIN vt |-> IF vt[k].id = StrToNat(letzte.arg)
                                  THEN [vt[k] EXCEPT !.status = "Free"]
                                  ELSE vt[k]]

\* Reached: a release whose sibling is still Allocated.
C9_Witness ==
  /\ C9_Fall
  /\ \E s \in BlockRecords(letzte.vorListe) :
       s.id = StrToNat(zugehoerigerBuddy(letzte.arg)) /\ s.status = "Allocated"
  /\ \E s \in BlockRecords(ganzebuddyliste) :
       s.id = StrToNat(letzte.arg) /\ s.status = "Free"

\* C10 as stated: Prozessfreigabe with its merge recursion never modifies
\* ProcessRegistry.
C10_ReleaseKeepsRegistry ==
  letzte.op = "Prozessstop" => letzte.nachFreigabe = letzte.vorProzessliste

\* C10 amended: Prozessfreigabe leaves ProcessRegistry as it was unless the
\* released block is the pool root or its merging reaches the pool root; in
\* that case Prozessfreigabe itself empties the whole registry.
C10_RegistryClearedAtRoot ==
  letzte.op = "Prozessstop"
  => letzte.nachFreigabe = IF Prozessauswahl = WurzelNummer THEN <<>>
                           ELSE letzte.vorProzessliste

\* Reached: a release of a non-root block whose merging arrives at the root
\* and empties a registry that still had entries.
C10_Witness ==
  /\ letzte.op = "Prozessstop"
  /\ letzte.arg # WurzelNummer
  /\ letzte.merges >= 1
  /\ Prozessauswahl = WurzelNummer
  /\ Menue(letzte.vorProzessliste) # {}
  /\ letzte.nachFreigabe = <<>>


\* C11: a request size of 0 is rejected before BlockTable is touched: the
\* allocate operation returns with BlockTable and ProcessRegistry unchanged.
C11_ZeroRejected ==
  (letzte.op = "Zuweisung" /\ letzte.arg = 0)
  => /\ pc = "auswahl"
     /\ ~letzte.ok
     /\ ganzebuddyliste = letzte.vorListe
     /\ besetzeProzessliste = letzte.vorProzessliste

\* C12: a release whose id is not the id of a currently Allocated record is
\* rejected: BlockTable is left exactly as it was, no record changes its
\* status and nothing is merged.
C12_UnknownIdRejected ==
  (/\ letzte.op = "Prozessstop"
   /\ ~\E s \in BlockRecords(letzte.vorListe) :
         s.id = StrToNat(letzte.arg) /\ s.status = "Allocated")
  => /\ BlockTable(ganzebuddyliste) = BlockTable(letzte.vorListe)
     /\ letzte.merges = 0

RECURSIVE Hoch2(_)
Hoch2(n) == IF n = 0 THEN 1 ELSE 2 * Hoch2(n - 1)

\* The table positions at which a successful allocation can have replaced
\* one Free record of the table vt by the records found in nt: everything
\* before and after that position is as it was.
ErsetzteStellen(vt, nt) ==
  {p \in DOMAIN vt :
     /\ vt[p].status = "Free"
     /\ Len(nt) >= Len(vt)
     /\ \A k \in 1..(p - 1) : nt[k] = vt[k]
     /\ \A k \in (p + 1)..Len(vt) : nt[k + Len(nt) - Len(vt)] = vt[k]
     /\ nt[p] # vt[p]}

\* The last operation released the id of a record that was Allocated.
FreigabeEinesBelegten ==
  /\ letzte.op = "Prozessstop"
  /\ \E s \in BlockRecords(letzte.vorListe) :
       s.id = StrToNat(letzte.arg) /\ s.status = "Allocated"

\* C13: every allocate(r) with r >= 1 and every release of an Allocated id
\* returns to the menu. The split loop runs d times with d <= log2(S / r) + 1
\* for the chosen block size S (r * 2^d <= 2 * S); the merge recursion takes
\* at most log2(PoolSize) merge steps, each one from a block to its parent,
\* and ends at the root or at a block whose sibling is not a Free record.
C13_Terminates ==
  /\ (letzte.op = "Zuweisung" /\ letzte.arg >= 1)
     => /\ pc = "auswahl"
        /\ letzte.ok
           => LET vt == BlockTable(letzte.vorListe)
                  nt == BlockTable(ganzebuddyliste)
              IN  \A p \in ErsetzteStellen(vt, nt) :
                    letzte.arg * Hoch2(Len(nt) - Len(vt)) <= 2 * vt[p].size
  /\ FreigabeEinesBelegten
     => /\ pc = "auswahl"
        /\ letzte.merges <= Log2(memory)
        /\ StrToNat(Prozessauswahl) = StrToNat(letzte.arg) \div Hoch2(letzte.merges)
        /\ \/ Prozessauswahl = WurzelNummer
           \/ ~\E s \in BlockRecords(ganzebuddyliste) :
                 /\ s.id = StrToNat(zugehoerigerBuddy(Prozessauswahl))
                 /\ s.status = "Free"

\* Reached: a release that merges log2(PoolSize) times, from a smallest
\* block up to the root of a pool of 16.
C13_Witness ==
  /\ FreigabeEinesBelegten
  /\ pc = "auswahl"
  /\ memory = 16
  /\ letzte.merges = Log2(memory)
  /\ Prozessauswahl = WurzelNummer

\* The records standing in nt where position p of vt was replaced.
NeueSaetze(vt, nt, p) == SubSeq(nt, p, p + Len(nt) - Len(vt))

\* C14: a successful allocate(r) removes exactly the chosen Free record,
\* puts exactly one Allocated record and zero or more Free records in its
\* place, appends exactly the allocated id at the end of ProcessRegistry and
\* leaves every other record of BlockTable and every earlier registry entry
\* unchanged and in the same relative order.
C14_Frame ==
  (letzte.op = "Zuweisung" /\ letzte.ok)
  => LET vt == BlockTable(letzte.vorListe)
         nt == BlockTable(ganzebuddyliste)
         vr == ProcessRegistry(letzte.vorProzessliste)
     IN  \E p \in ErsetzteStellen(vt, nt) :
           LET neu == NeueSaetze(vt, nt, p)
               belegt == {k \in DOMAIN neu : neu[k].status = "Allocated"}
           IN  /\ Cardinality(belegt) = 1
               /\ \A k \in DOMAIN neu : neu[k] # vt[p]
               /\ \A k \in belegt :
                    ProcessRegistry(besetzeProzessliste) = Append(vr, neu[k].id)

\* The last operation was an allocation that split a Free block.
SplitFall ==
  /\ letzte.op = "Zuweisung" /\ letzte.ok
  /\ Len(BlockTable(ganzebuddyliste)) > Len(BlockTable(letzte.vorListe))
  /\ ErsetzteStellen(BlockTable(letzte.vorListe), BlockTable(ganzebuddyliste)) # {}

\* C15 as stated: in a splitting allocation of the Free block k every split
\* of the current block c puts the new Free record under 2c + 1 and goes on
\* with 2c, so the allocated id is k * 2^d after d splits and every new Free
\* record has an odd id.
C15_ContinuesWithEvenChild ==
  SplitFall
  => LET vt == BlockTable(letzte.vorListe)
         nt == BlockTable(ganzebuddyliste)
         d == Len(nt) - Len(vt)
     IN  \E p \in ErsetzteStellen(vt, nt) :
           LET neu == NeueSaetze(vt, nt, p)
           IN  /\ neu[d + 1].id = vt[p].id * Hoch2(d)
               /\ \A k \in 1..d : neu[k].status = "Free" /\ neu[k].id % 2 = 1

\* C15 amended: every split of the current block c puts the new Free record
\* under 2c and goes on with 2c + 1, so after d splits of block k of size S
\* the Free records have the even ids (k + 1) * 2^j - 2 and the sizes
\* S / 2^j (j = 1..d), and the allocated id is (k + 1) * 2^d - 1.
C15_ContinuesWithOddChild ==
  SplitFall
  => LET vt == BlockTable(letzte.vorListe)
         nt == BlockTable(ganzebuddyliste)
         d == Len(nt) - Len(vt)
     IN  \E p \in ErsetzteStellen(vt, nt) :
           LET neu == NeueSaetze(vt, nt, p)
           IN  /\ neu[d + 1] = [id |-> (vt[p].id + 1) * Hoch2(d) - 1,
                                size |-> vt[p].size \div Hoch2(d),
                                status |-> "Allocated"]
               /\ StrToNat(letzte.nr) = (vt[p].id + 1) * Hoch2(d) - 1
               /\ \A j \in 1..d :
                    neu[j] = [id |-> (vt[p].id + 1) * Hoch2(j) - 2,
                              size |-> vt[p].size \div Hoch2(j),
                              status |-> "Free"]

\* Reached: a block other than the root is split two times or more.
C15_Witness ==
  /\ SplitFall
  /\ LET vt == BlockTable(letzte.vorListe)
         nt == BlockTable(ganzebuddyliste)
     IN  /\ Len(nt) - Len(vt) >= 2
         /\ \E p \in ErsetzteStellen(vt, nt) : vt[p].id > 1

\* The Free records of the table vt that are large enough for the request r.
Kandidaten(vt, r) == {q \in DOMAIN vt : vt[q].status = "Free" /\ vt[q].size >= r}

\* C16: the record chosen by allocate(r) is a Free record of size >= r whose
\* size is minimal among the Free records of size >= r, and among several
\* records of that minimal size it is the one at the highest table index.
C16_BestFit ==
  (letzte.op = "Zuweisung" /\ letzte.ok)
  => LET vt == BlockTable(letzte.vorListe)
         nt == BlockTable(ganzebuddyliste)
     IN  /\ ErsetzteStellen(vt, nt) # {}
         /\ \A p \in ErsetzteStellen(vt, nt) :
              /\ p \in Kandidaten(vt, letzte.arg)
              /\ \A q \in Kandidaten(vt, letzte.arg) :
                   \/ vt[q].size > vt[p].size
                   \/ vt[q].size = vt[p].size /\ q <= p

\* The table position that the best-fit rule selects for the request r: a
\* candidate of minimal size, the one at the highest index among equals.
BesteStellen(vt, r) ==
  {p \in Kandidaten(vt, r) :
     \A q \in Kandidaten(vt, r) :
       \/ vt[q].size > vt[p].size
       \/ vt[q].size = vt[p].size /\ q <= p}

\* C17: when the chosen Free record (id k, size S) has S < 2 * r, a
\* successful allocate(r) splits nothing: the record keeps its id, its size
\* and its table position and only its status becomes Allocated, k is
\* appended to ProcessRegistry, and the table length is unchanged.
C17_NoSplit ==
  (letzte.op = "Zuweisung" /\ letzte.ok)
  => LET vt == BlockTable(letzte.vorListe)
     IN  \A p \in BesteStellen(vt, letzte.arg) :
           vt[p].size < 2 * letzte.arg
           => /\ BlockTable(ganzebuddyliste) = [vt EXCEPT ![p].status = "Allocated"]
              /\ ProcessRegistry(besetzeProzessliste)
                   = Append(ProcessRegistry(letzte.vorProzessliste), vt[p].id)

\* The records of the table that carry the id handed out by the last
\* allocation.
Zugewiesen ==
  {s \in BlockRecords(ganzebuddyliste) : s.id = StrToNat(letzte.nr)}

\* C18: every successful allocate(r), r >= 1, yields an Allocated record
\* whose size s satisfies r <= s < 2 * r; with PoolSize 16 and r = 3 the
\* block has size 4 and an id of depth 2 (4..7).
C18_SizeWindow ==
  (letzte.op = "Zuweisung" /\ letzte.ok /\ letzte.arg >= 1)
  => /\ Zugewiesen # {}
     /\ \A s \in Zugewiesen :
          /\ s.status = "Allocated"
          /\ letzte.arg <= s.size /\ s.size < 2 * letzte.arg
          /\ (memory = 16 /\ letzte.arg = 3) => (s.size = 4 /\ s.id \in 4..7)

\* The ids of the blocks that a release of the id k with m merges passes
\* through, and of their siblings: k, parent(k), ... below the final parent.
Verschmolzen(k, m) ==
  UNION {{k \div Hoch2(j), (k \div Hoch2(j)) + 1 - 2 * ((k \div Hoch2(j)) % 2)} :
           j \in 0..(m - 1)}

\* C19: a release that finds the sibling of the current block present and
\* Free removes the records of both and inserts one Free record with the
\* parent's id and twice the size, then repeats with the parent; a release
\* that performs m merges shortens BlockTable by exactly m entries.
C19_MergeShortens ==
  letzte.op = "Prozessstop"
  => LET vt == BlockTable(letzte.vorListe)
         nt == BlockTable(ganzebuddyliste)
         k == StrToNat(letzte.arg)
         m == letzte.merges
     IN  /\ Len(nt) = Len(vt) - m
         /\ \A s \in BlockRecords(ganzebuddyliste) : s.id \notin Verschmolzen(k, m)
         /\ m >= 1
            => \A v \in BlockRecords(letzte.vorListe) :
                 v.id = k
                 => [id |-> k \div Hoch2(m), size |-> v.size * Hoch2(m), status |-> "Free"]
                      \in BlockRecords(ganzebuddyliste)

\* C20: a successful allocate(n) returning id, immediately followed by
\* release(id), restores BlockTable exactly as an ordered sequence: the same
\* records at the same table indices as before the allocate call.
C20_RoundTripOrder ==
  [][(/\ letzte.op = "Zuweisung" /\ letzte.ok
      /\ letzte'.op = "Prozessstop" /\ letzte'.arg = letzte.nr)
     => BlockTable(ganzebuddyliste') = BlockTable(letzte.vorListe)]_vars

\* C21: for process numbers in 1..65535 the computed sibling (Bro) equals the
\* computed parent (Quelle) if and only if the number is the root 1, so the
\* Bro == Quelle test of the release fires exactly at the pool root.
C21_StopAtRoot ==
  letzte.op = "Buddys"
  => /\ letzte.Bro = letzte.Quelle <=> letzte.nummer = 1
     /\ letzte.Bro = letzte.Quelle <=> letzte.text = WurzelNummer

\* Reached: the two calls on the root, both giving 00000.
C21_Witness ==
  /\ letzte.op = "Buddys"
  /\ letzte.nummer = 1
  /\ letzte.Bro = <<0, 0, 0, 0, 0>>
  /\ letzte.Quelle = <<0, 0, 0, 0, 0>>

\* C22: for every process number in 2..65535 the sibling of the sibling is
\* the number itself, the sibling differs from the number, and the sibling
\* has the parent of the number, which is id / 2 for an even and
\* (id - 1) / 2 for an odd id.
C22_SiblingSymmetric ==
  letzte.op = "BuddysDesBruders"
  => /\ letzte.Bro = letzte.text
     /\ letzte.vorBro # letzte.text
     /\ letzte.Quelle = letzte.vorQuelle
     /\ StrToNat(letzte.vorQuelle)
          = IF letzte.nummer % 2 = 0 THEN letzte.nummer \div 2
            ELSE (letzte.nummer - 1) \div 2
     /\ Len(letzte.vorQuelle) = IdWidth

\* Reached: the largest number, 65535, with sibling 65534 and parent 32767.
C22_Witness ==
  /\ letzte.op = "BuddysDesBruders"
  /\ letzte.nummer = MaxNummer
  /\ letzte.vorBro = <<6, 5, 5, 3, 4>>
  /\ letzte.Bro = <<6, 5, 5, 3, 5>>
  /\ letzte.Quelle = <<3, 2, 7, 6, 7>>

\* C23: the start-up check accepts a typed value exactly when it is a
\* positive power of two not exceeding 32768, so the simulation never starts
\* with a pool larger than 32768.
C23_PoolCheck ==
  /\ \A eingabe \in PoolEingaben :
       testtest(NatToStr(eingabe)) <=> (is_power_of_two(eingabe) /\ eingabe <= MaxMemory)
  /\ is_power_of_two(memory)
  /\ memory <= MaxMemory

\* The whole pool as one Free record.
FreieWurzel == [id |-> 1, size |-> memory, status |-> "Free"]

\* Nothing is left to release: the last operation was a release and the
\* menu of Prozessstop offers no process any more.
AllesFreigegeben ==
  /\ letzte.op = "Prozessstop"
  /\ Menue(besetzeProzessliste) = {}

\* C24: once every outstanding allocation has been released, BlockTable is
\* exactly one entry, the Free record with id 1 and size PoolSize, with no
\* other or empty entries, and ProcessRegistry is empty.
C24_AllReleased ==
  AllesFreigegeben
  => /\ BlockTable(ganzebuddyliste) = << FreieWurzel >>
     /\ ganzebuddyliste = << <<0>> \o WurzelNummer \o NatToStr(memory) >>
     /\ besetzeProzessliste = <<>>

\* The pairs of Free records of the table whose ids are 2k and 2k + 1.
FreieGeschwister(liste) ==
  {<<a, b>> \in BlockRecords(liste) \X BlockRecords(liste) :
     /\ a.status = "Free" /\ b.status = "Free"
     /\ a.id % 2 = 0 /\ b.id = a.id + 1}

\* C25: after every completed allocate or release BlockTable never holds
\* two Free records whose ids are siblings (2k and 2k + 1).
C25_NoFreeSiblings ==
  pc = "auswahl" => FreieGeschwister(ganzebuddyliste) = {}

IstBelegt(s) == s.status = "Allocated"

\* The Allocated records of a table, in table order.
Belegte(liste) == SelectSeq(BlockTable(liste), IstBelegt)

\* The sequence t without its element at position k.
Ohne(t, k) == SubSeq(t, 1, k - 1) \o SubSeq(t, k + 1, Len(t))

\* C26: no operation on one block disturbs another live allocation. An
\* allocate leaves every record that was Allocated as it was (a failed one
\* adds nothing, a successful one adds exactly the record of the id it
\* returns), and release(id) leaves every Allocated record other than id in
\* the table with its id, size and status.
C26_LiveAllocationsKept ==
  /\ (letzte.op = "Zuweisung" /\ pc = "auswahl")
     => LET vb == Belegte(letzte.vorListe)
            nb == Belegte(ganzebuddyliste)
        IN  IF letzte.ok
            THEN \E k \in DOMAIN nb : /\ nb[k].id = StrToNat(letzte.nr)
                                       /\ Ohne(nb, k) = vb
            ELSE nb = vb
  /\ letzte.op = "Prozessstop"
     => \A s \in BlockRecords(letzte.vorListe) :
          (IstBelegt(s) /\ s.id # StrToNat(letzte.arg))
          => s \in BlockRecords(ganzebuddyliste)

\* The ids listed in ProcessRegistry.
RegistryIds(prozessliste) ==
  LET r == ProcessRegistry(prozessliste) IN {r[k] : k \in DOMAIN r}

\* C27: in every reachable state every record that is Allocated in BlockTable
\* has its id listed in ProcessRegistry, so that every live allocation can
\* still be selected for release.
C27_AllocatedRegistered ==
  LET ids == RegistryIds(besetzeProzessliste)
  IN  \A s \in BlockRecords(ganzebuddyliste) : IstBelegt(s) => s.id \in ids

\* C28: in every reachable state each record's size matches its tree depth,
\* size * 2^floor(log2(id)) = PoolSize, so that ids never exceed
\* 2 * PoolSize - 1.
C28_SizeMatchesDepth ==
  \A s \in BlockRecords(ganzebuddyliste) :
    /\ s.id >= 1
    /\ s.size * Hoch2(Log2(s.id)) = memory
    /\ s.id <= 2 * memory - 1

\* C29: the table position that allocate marks or splits (Buddiestelle, the
\* exit status of freieBuddyAnfrage) is always the index selected by the
\* best-fit search (ergebnis), also on tables of more than 256 records.
C29_ExitStatusIsIndex ==
  (letzte.op = "Zuweisung" /\ letzte.ok)
  => Buddiestelle(letzte.vorListe, letzte.arg)
       = freieBuddyAnfrage(letzte.vorListe, letzte.arg)

\* The numbers whose text every other number's text is compared with.
Vergleichsnummern == {1, 10, 100, 1000} \cup Randnummern

\* C30: for every id in 1..65535 the text form (neueProzessNummer,
\* ProzessIDString) is a string of exactly 5 decimal digits, ProzessIDint of
\* that string gives the id again, and distinct ids have distinct strings.
C30_TextRoundTrip ==
  /\ letzte.op \in {"neueProzessNummer", "ProzessIDString"}
     => /\ Len(letzte.text) = IdWidth
        /\ \A k \in DOMAIN letzte.text : letzte.text[k] \in 0..9
        /\ StrToNat(letzte.text) = letzte.nummer
        /\ \A nummer \in Vergleichsnummern :
             nummer # letzte.nummer
             => /\ neueProzessNummer(NatToStr(nummer)) # letzte.text
                /\ ProzessIDString(NatToStr(nummer)) # letzte.text
  /\ letzte.op = "ProzessIDint"
     => /\ letzte.IntID = NatToStr(letzte.nummer)
        /\ StrToNat(letzte.IntID) = letzte.nummer

\* Reached: 1 has become 00001 and is 1 again.
C30_Witness ==
  /\ letzte.op = "ProzessIDint"
  /\ letzte.nummer = 1
  /\ letzte.text = <<0, 0, 0, 0, 1>>
  /\ letzte.IntID = <<1>>

====
